---- MODULE Spec2Model ----
(***************************************************************************)
(* Ash Light (src/ashlight.py): a terminal dungeon crawler.  The model     *)
(* follows class Game and main(): the constructor's random placement, the  *)
(* title screen, and the main loop render -> getch -> move / place_torch.  *)
(* A position (y, x) is the tuple <<y, x>>.  A key is the string getch     *)
(* returns, written as the sequence of its character codes.                *)
(***************************************************************************)
EXTENDS Integers, Sequences, FiniteSets, TLC

\* ------------------------------------------------------------ map constants
\* The grid of the model is smaller than the 40 x 15 grid of the source.
WIDTH == 8
HEIGHT == 4
VISION_RADIUS == 3
TORCH_RADIUS == 3
TORCH_COUNT == 3

WALL == "#"
FLOOR == "."
PLAYER == "@"
TREASURE == "K"
EXIT == "E"
TORCH == "!"
FOG == " "

\* Arrow key escape sequences: ESC [ A, ESC [ B, ESC [ D, ESC [ C.
UP == <<27, 91, 65>>
DOWN == <<27, 91, 66>>
LEFT == <<27, 91, 68>>
RIGHT == <<27, 91, 67>>

DIRS == (UP :> <<-1, 0>>) @@ (DOWN :> <<1, 0>>) @@ (LEFT :> <<0, -1>>) @@ (RIGHT :> <<0, 1>>)

\* ------------------------------------------------------------ helpers
Abs(n) == IF n < 0 THEN 0 - n ELSE n

Max(a, b) == IF a >= b THEN a ELSE b

Range(s) == {s[i] : i \in DOMAIN s}

\* Every index pair of the grid, and the range random_empty draws from.
Cells == (0 .. HEIGHT - 1) \X (0 .. WIDTH - 1)

Interior == (1 .. HEIGHT - 2) \X (1 .. WIDTH - 2)

\* Python values of the constructor: None, a tuple (y, x), a list of tuples.
\* Python compares a tuple and a list as unequal whatever they hold.
PyNone == [kind |-> "None", val |-> <<>>]

PyTuple(pos) == [kind |-> "tuple", val |-> pos]

PyList(s) == [kind |-> "list", val |-> s]

\* The (None, None) entry of self.torches that stands for the player's light.
Placeholder == <<-1, -1>>

\* ------------------------------------------------------------ messages
NoMessage == "None"

KeyMessage(n) == CASE n = 1 -> "You found a key! (1/3)"
                   [] n = 2 -> "You found a key! (2/3)"
                   [] n = 3 -> "You found a key! (3/3)"
                   [] OTHER -> "You found a key! (?/3)"

WailMessage == "You hear a distant wail... Something ancient has stirred."

AllKeysMessage == "You have all three keys! The exit is now your only hope."

VictoryMessage == "You escaped with the treasure! Victory!"

\* The line render prints when there is no message and has_treasure is set.
TreasureLine == "You have the treasure! Find the exit!"

\* ------------------------------------------------------------ state
VARIABLES map, visible, light_levels, seen, torches, torch_count, player_pos,
          treasure_pos, exit_pos, collected_treasures, has_treasure, message,
          message_style, running, pc, exit_code, cmd, key,
          console_message

vars == <<map, visible, light_levels, seen, torches, torch_count, player_pos,
          treasure_pos, exit_pos, collected_treasures, has_treasure, message,
          message_style, running, pc, exit_code, cmd, key,
          console_message>>

\* What the terminal shows under the rows of the last frame: the message line
\* render has printed.
consoleVars == <<console_message>>

\* What move and place_torch can touch.
gameVars == <<map, visible, light_levels, seen, torches, torch_count, player_pos,
              treasure_pos, exit_pos, collected_treasures, has_treasure, message,
              message_style, running>>

\* ------------------------------------------------------------ construction
\* The floor cells of the generated map of the model: a corridor that turns
\* down at its end.  Every other interior cell drew random.random() < 0.1 and
\* is a Wall.
Room == {<<1, 1>>, <<1, 2>>, <<1, 3>>, <<1, 4>>, <<2, 4>>}

generate_map == {[c \in Cells |-> IF c \in Interior /\ c \in Room THEN FLOOR ELSE WALL]}

in_bounds(y, x) == 0 <= y /\ y < HEIGHT /\ 0 <= x /\ x < WIDTH

\* occupied = [pos for pos in [player_pos, treasure_pos, exit_pos] if pos is not None]
Occupied(pp, tp, ep) == SelectSeq(<<pp, tp, ep>>, LAMBDA v : v.kind # "None")

\* (y, x) not in occupied: a tuple equals only an equal tuple, never a list.
NotInOccupied(pos, occupied) ==
  \A i \in DOMAIN occupied : ~(occupied[i].kind = "tuple" /\ occupied[i].val = pos)

\* The cells random_empty can return.
random_empty(m, pp, tp, ep) ==
  {c \in Interior : m[c] = FLOOR /\ NotInOccupied(c, Occupied(pp, tp, ep))}

\* The draws of random.randint the model follows: where the player starts,
\* where each of the three items lands, where the exit lands.
StartSample == {<<1, 1>>}

ItemSample == <<{<<1, 2>>}, {<<1, 3>>}, {<<1, 3>>, <<1, 4>>}>>

ExitSample == {<<1, 4>>, <<2, 4>>}

Init ==
  /\ map \in generate_map
  /\ visible = [c \in Cells |-> FALSE]
  /\ light_levels = [c \in Cells |-> 0]
  /\ seen = [c \in Cells |-> FALSE]
  /\ torches = <<Placeholder>>
  /\ torch_count = TORCH_COUNT
  /\ player_pos \in random_empty(map, PyNone, PyNone, PyNone) \cap StartSample
  /\ treasure_pos \in {t \in [1 .. 3 -> random_empty(map, PyTuple(player_pos), PyNone, PyNone)] :
                          \A i \in 1 .. 3 : t[i] \in ItemSample[i]}
  /\ collected_treasures = {}
  /\ exit_pos \in random_empty(map, PyTuple(player_pos), PyList(treasure_pos), PyNone) \cap ExitSample
  /\ has_treasure = FALSE
  /\ message = NoMessage
  /\ message_style = "white"
  /\ running = TRUE
  /\ pc = "title"
  /\ exit_code = -1
  /\ cmd = <<>>
  /\ key = <<>>
  /\ console_message = NoMessage

\* ------------------------------------------------------------ input
\* What getch returns: one character, or ESC and the two characters after it,
\* or the empty string at end of input.
Chars == {3, 10, 13, 32, 66}

EscTails == {<<91, 65>>, <<91, 66>>, <<91, 67>>, <<91, 68>>, <<91, 72>>}

getch == {<<>>} \cup {<<c>> : c \in Chars} \cup {<<27>> \o t : t \in EscTails}

\* ord(cmd) raises TypeError unless cmd is one character long.
OrdRaises(k) == Len(k) # 1

checkEnter(k) == k[1] \in {10, 13}

\* ------------------------------------------------------------ lighting
\* light_radius without its test dist <= radius: the whole square is lit.
Reaches_Square(dy, dx, radius) ==
  /\ dy \in (0 - radius) .. radius
  /\ dx \in (0 - radius) .. radius

\* dist <= radius, for an offset the two loops of light_radius produce.
Reaches(dy, dx, radius) ==
  /\ dy \in (0 - radius) .. radius
  /\ dx \in (0 - radius) .. radius
  /\ Abs(dy) + Abs(dx) <= radius

\* One frame's rolls of random.random() < 0.2, one per (source, cell): no
\* roll succeeds, or every roll of the odd-numbered sources of the list does.
FlickerRolls == {"none", "alternate"}

Flickers(roll, i, c) == roll = "alternate" /\ i % 2 = 1

\* light_radius recording only the cells it lights with intensity > 0.
MarksSeen_Bright(intensity) == intensity > 0

\* Whether light_radius records a lit cell in self.seen.
MarksSeen(intensity) == TRUE

\* light_radius adding each source's intensity to the level the cell has.
light_radius_Sum(acc, center, radius, i, roll) ==
  LET hit(c) == Reaches(c[1] - center[1], c[2] - center[2], radius)
      dist(c) == Abs(c[1] - center[1]) + Abs(c[2] - center[2])
      base(c) == Max(0, radius - dist(c))
      intensity(c) == IF Flickers(roll, i, c) THEN Max(0, base(c) - 1) ELSE base(c)
  IN [visible |-> [c \in Cells |-> acc.visible[c] \/ hit(c)],
      seen |-> [c \in Cells |-> acc.seen[c] \/ (hit(c) /\ MarksSeen(intensity(c)))],
      light_levels |-> [c \in Cells |->
                          IF hit(c) THEN acc.light_levels[c] + intensity(c)
                          ELSE acc.light_levels[c]]]

\* light_radius(center, radius, flicker=True) for the i-th source of the list.
light_radius(acc, center, radius, i, roll) ==
  LET hit(c) == Reaches(c[1] - center[1], c[2] - center[2], radius)
      dist(c) == Abs(c[1] - center[1]) + Abs(c[2] - center[2])
      base(c) == Max(0, radius - dist(c))
      intensity(c) == IF Flickers(roll, i, c) THEN Max(0, base(c) - 1) ELSE base(c)
  IN [visible |-> [c \in Cells |-> acc.visible[c] \/ hit(c)],
      seen |-> [c \in Cells |-> acc.seen[c] \/ (hit(c) /\ MarksSeen(intensity(c)))],
      light_levels |-> [c \in Cells |->
                          IF hit(c) THEN Max(acc.light_levels[c], intensity(c))
                          ELSE acc.light_levels[c]]]

\* Whether the (None, None) entry lights the player's position.
PlayerLightActive == torch_count > 0

RECURSIVE LightSources(_, _, _)
LightSources(acc, i, roll) ==
  IF i > Len(torches) THEN acc
  ELSE LET t == torches[i]
           next == IF t = Placeholder
                   THEN IF PlayerLightActive
                        THEN light_radius(acc, player_pos, VISION_RADIUS, i, roll)
                        ELSE acc
                   ELSE light_radius(acc, t, TORCH_RADIUS, i, roll)
       IN LightSources(next, i + 1, roll)

\* update_visibility lighting the player's position on every frame, whatever
\* the pool counter and the list of torches hold.
update_visibility_Ambient(roll) ==
  LET cleared == [visible |-> [c \in Cells |-> FALSE],
                  seen |-> seen,
                  light_levels |-> [c \in Cells |-> 0]]
      lit == light_radius(LightSources(cleared, 1, roll), player_pos,
                          VISION_RADIUS, 1, roll)
  IN /\ visible' = lit.visible
     /\ seen' = lit.seen
     /\ light_levels' = lit.light_levels

update_visibility(roll) ==
  LET cleared == [visible |-> [c \in Cells |-> FALSE],
                  seen |-> seen,
                  light_levels |-> [c \in Cells |-> 0]]
      lit == LightSources(cleared, 1, roll)
  IN /\ visible' = lit.visible
     /\ seen' = lit.seen
     /\ light_levels' = lit.light_levels

\* ------------------------------------------------------------ operations
title_screen ==
  /\ pc = "title"
  /\ \E k \in getch :
       /\ key' = k
       /\ pc' = IF k = <<32>> THEN "render" ELSE "title"
       /\ UNCHANGED <<gameVars, exit_code, cmd, consoleVars>>

\* The four styles get_tile_style indexes by brightness 0 .. 3.
StyleTable == <<"grey50", "red3", "dark_red", "bold red">>

\* get_tile_style(y, x) for the light levels ll.  Indexing the list past its
\* end raises IndexError: the value "IndexError" stands for the raise.
get_tile_style(ll, c) ==
  LET brightness == ll[c]
  IN IF brightness = 0 THEN "dim"
     ELSE IF map[c] = WALL \/ map[c] = FLOOR
          THEN IF brightness + 1 \in DOMAIN StyleTable
               THEN StyleTable[brightness + 1]
               ELSE "IndexError"
          ELSE "white"

\* render drawing the exit and the placed torches on remembered cells too.
render_cell_MemoryOverlay(vis, ll, sn, c) ==
  IF c = player_pos THEN <<PLAYER, "bold yellow">>
  ELSE IF vis[c] \/ sn[c]
       THEN LET style == get_tile_style(ll, c)
            IN IF style = "IndexError" THEN <<FOG, "IndexError">>
               ELSE IF c \in Range(treasure_pos) /\ c \notin collected_treasures
                    THEN <<TREASURE, "bold magenta">>
               ELSE IF c = exit_pos THEN <<EXIT, "bold cyan">>
               ELSE IF c \in Range(torches) THEN <<TORCH, "bold red">>
               ELSE IF vis[c] THEN <<map[c], style>>
               ELSE <<map[c], "grey23">>
       ELSE <<FOG, "dim">>

\* render styling the torch symbol by the brightness of its cell.
render_cell_TorchStyled(vis, ll, sn, c) ==
  IF c = player_pos THEN <<PLAYER, "bold yellow">>
  ELSE IF vis[c]
       THEN LET style == get_tile_style(ll, c)
            IN IF style = "IndexError" THEN <<FOG, "IndexError">>
               ELSE IF c \in Range(treasure_pos) /\ c \notin collected_treasures
                    THEN <<TREASURE, "bold magenta">>
               ELSE IF c = exit_pos THEN <<EXIT, "bold cyan">>
               ELSE IF c \in Range(torches) THEN <<TORCH, style>>
               ELSE <<map[c], style>>
       ELSE IF sn[c]
            THEN IF map[c] = WALL \/ map[c] = FLOOR
                 THEN <<map[c], "grey23">>
                 ELSE <<FOG, "dim">>
            ELSE <<FOG, "dim">>

\* The (symbol, style) render appends for cell c.
render_cell(vis, ll, sn, c) ==
  IF c = player_pos THEN <<PLAYER, "bold yellow">>
  ELSE IF vis[c]
       THEN LET style == get_tile_style(ll, c)
            IN IF style = "IndexError" THEN <<FOG, "IndexError">>
               ELSE IF c \in Range(treasure_pos) /\ c \notin collected_treasures
                    THEN <<TREASURE, "bold magenta">>
               ELSE IF c = exit_pos THEN <<EXIT, "bold cyan">>
               ELSE IF c \in Range(torches) THEN <<TORCH, "bold red">>
               ELSE <<map[c], style>>
       ELSE IF sn[c]
            THEN IF map[c] = WALL \/ map[c] = FLOOR
                 THEN <<map[c], "grey23">>
                 ELSE <<FOG, "dim">>
            ELSE <<FOG, "dim">>

\* The rows of one frame: a (symbol, style) pair per cell.
project(vis, ll, sn) == [c \in Cells |-> render_cell(vis, ll, sn, c)]

\* The message line of one frame.
message_line ==
  IF message # NoMessage THEN message
  ELSE IF has_treasure THEN TreasureLine
  ELSE NoMessage

render ==
  /\ pc = "render"
  /\ \E roll \in FlickerRolls : update_visibility(roll)
  /\ pc' = "getch"
  /\ console_message' = message_line
  /\ UNCHANGED exit_code
  /\ UNCHANGED <<map, torches, torch_count, player_pos, treasure_pos, exit_pos,
                 collected_treasures, has_treasure, message, message_style,
                 running, cmd, key>>

\* move without its Wall test.
CanMove_ThroughWalls(ny, nx) == in_bounds(ny, nx)

\* The guard of move: the target is in bounds and no Wall.
CanMove(ny, nx) == in_bounds(ny, nx) /\ map[<<ny, nx>>] # WALL

\* move without the two set_message calls that follow the key message.
move_CountOnly(dy, dx) ==
  LET ny == player_pos[1] + dy
      nx == player_pos[2] + dx
      target == <<ny, nx>>
  IN IF CanMove(ny, nx)
     THEN /\ player_pos' = target
          /\ IF target \in Range(treasure_pos) /\ target \notin collected_treasures
             THEN LET n == Cardinality(collected_treasures \cup {target})
                  IN /\ collected_treasures' = collected_treasures \cup {target}
                     /\ has_treasure' = IF n = 3 THEN TRUE ELSE has_treasure
                     /\ message' = KeyMessage(n)
                     /\ message_style' = "bold magenta"
                     /\ pc' = "render"
                     /\ UNCHANGED exit_code
             ELSE IF target = exit_pos /\ has_treasure
                  THEN /\ message' = VictoryMessage
                       /\ message_style' = "bold green"
                       /\ pc' = "exited"
                       /\ exit_code' = 0
                       /\ UNCHANGED <<collected_treasures, has_treasure>>
                  ELSE /\ pc' = "render"
                       /\ UNCHANGED <<collected_treasures, has_treasure, message,
                                      message_style, exit_code>>
          /\ UNCHANGED <<map, visible, light_levels, seen, torches, torch_count,
                         treasure_pos, exit_pos, running>>
     ELSE /\ pc' = "render"
          /\ UNCHANGED <<gameVars, exit_code>>

\* move clearing the message on a step that triggers no event.
move_Ephemeral(dy, dx) ==
  LET ny == player_pos[1] + dy
      nx == player_pos[2] + dx
      target == <<ny, nx>>
  IN IF CanMove(ny, nx)
     THEN /\ player_pos' = target
          /\ IF target \in Range(treasure_pos) /\ target \notin collected_treasures
             THEN LET n == Cardinality(collected_treasures \cup {target})
                  IN /\ collected_treasures' = collected_treasures \cup {target}
                     /\ has_treasure' = IF n = 3 THEN TRUE ELSE has_treasure
                     /\ message' = IF n = 3 THEN AllKeysMessage
                                   ELSE IF n = 2 THEN WailMessage
                                   ELSE KeyMessage(n)
                     /\ message_style' = IF n = 3 THEN "bold green"
                                         ELSE IF n = 2 THEN "bold red"
                                         ELSE "bold magenta"
                     /\ pc' = "render"
                     /\ UNCHANGED exit_code
             ELSE IF target = exit_pos /\ has_treasure
                  THEN /\ message' = VictoryMessage
                       /\ message_style' = "bold green"
                       /\ pc' = "exited"
                       /\ exit_code' = 0
                       /\ UNCHANGED <<collected_treasures, has_treasure>>
                  ELSE /\ pc' = "render"
                       /\ message' = NoMessage
                       /\ message_style' = "white"
                       /\ UNCHANGED <<collected_treasures, has_treasure, exit_code>>
          /\ UNCHANGED <<map, visible, light_levels, seen, torches, torch_count,
                         treasure_pos, exit_pos, running>>
     ELSE /\ pc' = "render"
          /\ UNCHANGED <<gameVars, exit_code>>

move(dy, dx) ==
  LET ny == player_pos[1] + dy
      nx == player_pos[2] + dx
      target == <<ny, nx>>
  IN IF CanMove(ny, nx)
     THEN /\ player_pos' = target
          /\ IF target \in Range(treasure_pos) /\ target \notin collected_treasures
             THEN LET n == Cardinality(collected_treasures \cup {target})
                  IN /\ collected_treasures' = collected_treasures \cup {target}
                     /\ has_treasure' = IF n = 3 THEN TRUE ELSE has_treasure
                     /\ message' = IF n = 3 THEN AllKeysMessage
                                   ELSE IF n = 2 THEN WailMessage
                                   ELSE KeyMessage(n)
                     /\ message_style' = IF n = 3 THEN "bold green"
                                         ELSE IF n = 2 THEN "bold red"
                                         ELSE "bold magenta"
                     /\ pc' = "render"
                     /\ UNCHANGED exit_code
             ELSE IF target = exit_pos /\ has_treasure
                  THEN /\ message' = VictoryMessage
                       /\ message_style' = "bold green"
                       /\ pc' = "exited"
                       /\ exit_code' = 0
                       /\ UNCHANGED <<collected_treasures, has_treasure>>
                  ELSE /\ pc' = "render"
                       /\ UNCHANGED <<collected_treasures, has_treasure, message,
                                      message_style, exit_code>>
          /\ UNCHANGED <<map, visible, light_levels, seen, torches, torch_count,
                         treasure_pos, exit_pos, running>>
     ELSE /\ pc' = "render"
          /\ UNCHANGED <<gameVars, exit_code>>

\* place_torch without its test that the cell holds no torch yet.
CanPlace_Stacking == torch_count > 0

\* place_torch without its test self.torch_count > 0.
CanPlace_EmptyPool == player_pos \notin Range(torches)

\* place_torch with the test self.torch_count >= 0 for its test > 0.
CanPlace_AtZero == torch_count >= 0 /\ player_pos \notin Range(torches)

\* The guard of place_torch.
CanPlace == torch_count > 0 /\ player_pos \notin Range(torches)

\* place_torch without the removal of (None, None) when the pool is empty.
place_torch_KeepPlaceholder ==
  /\ IF CanPlace
     THEN /\ torch_count' = torch_count - 1
          /\ torches' = Append(torches, player_pos)
     ELSE UNCHANGED <<torches, torch_count>>
  /\ pc' = "render"
  /\ UNCHANGED <<map, visible, light_levels, seen, player_pos, treasure_pos,
                 exit_pos, collected_treasures, has_treasure, message,
                 message_style, running, exit_code>>

place_torch ==
  /\ IF CanPlace
     THEN /\ torch_count' = torch_count - 1
          /\ torches' = IF torch_count - 1 = 0
                        THEN SelectSeq(Append(torches, player_pos),
                                       LAMBDA t : t # Placeholder)
                        ELSE Append(torches, player_pos)
     ELSE UNCHANGED <<torches, torch_count>>
  /\ pc' = "render"
  /\ UNCHANGED <<map, visible, light_levels, seen, player_pos, treasure_pos,
                 exit_pos, collected_treasures, has_treasure, message,
                 message_style, running, exit_code>>

\* One pass of the body of main's loop after render: cmd = game.getch() and
\* the dispatch on it.
MainKey(k) ==
  /\ pc = "getch"
  /\ cmd' = k
  /\ UNCHANGED <<key, consoleVars>>
  /\ IF k \in DOMAIN DIRS
     THEN move(DIRS[k][1], DIRS[k][2])
     ELSE IF OrdRaises(k)
          THEN /\ pc' = "crashed"
               /\ exit_code' = 1
               /\ UNCHANGED gameVars
          ELSE IF checkEnter(k)
               THEN place_torch
               ELSE /\ pc' = "render"
                    /\ UNCHANGED <<gameVars, exit_code>>

KeyMove == \E k \in getch : k \in DOMAIN DIRS /\ MainKey(k)

KeyEnter == \E k \in getch : k \notin DOMAIN DIRS /\ ~OrdRaises(k) /\ checkEnter(k) /\ MainKey(k)

KeyOther == \E k \in getch : k \notin DOMAIN DIRS /\ ~OrdRaises(k) /\ ~checkEnter(k) /\ MainKey(k)

KeyTypeError == \E k \in getch : k \notin DOMAIN DIRS /\ OrdRaises(k) /\ MainKey(k)

\* SIGINT while the process blocks in getch.
handle_sigint ==
  /\ pc \in {"title", "getch"}
  /\ running' = FALSE
  /\ pc' = "exited"
  /\ exit_code' = 0
  /\ UNCHANGED <<map, visible, light_levels, seen, torches, torch_count, player_pos,
                 treasure_pos, exit_pos, collected_treasures, has_treasure, message,
                 message_style, cmd, key, consoleVars>>

Next ==
  \/ title_screen
  \/ render
  \/ KeyMove
  \/ KeyEnter
  \/ KeyOther
  \/ KeyTypeError
  \/ handle_sigint

Spec == Init /\ [][Next]_vars

\* ------------------------------------------------------------ vocabulary
\* The torches the player has placed, in the order of placement.
PlacedTorches == SelectSeq(torches, LAMBDA t : t # Placeholder)

Manhattan(a, b) == Abs(a[1] - b[1]) + Abs(a[2] - b[2])

EnterKeys == {<<10>>, <<13>>}

\* This step is main's handling of the key it has just read (no SIGINT).
Dispatched(k) == pc = "getch" /\ pc' # "getch" /\ running' /\ cmd' = k

\* This step is the recompute of one render.
Recomputed == pc = "render" /\ pc' = "getch"

\* The cell a move in the direction of the arrow key k aims at.
Target(k) == <<player_pos[1] + DIRS[k][1], player_pos[2] + DIRS[k][2]>>

\* The process has ended by the winning move.
Won == pc = "exited" /\ running /\ exit_code = 0 /\ message = VictoryMessage

\* ------------------------------------------------------------ claims
\* C1: place_torch succeeds exactly when the pool counter is > 0 and no placed
\* torch is at the player's position; it then appends one torch at that
\* position and takes 1 from the counter; otherwise it changes nothing of the
\* torch list, the counter, the player position, the collected set, the flags
\* and the message.
C1_PlaceTorch ==
  [][\A k \in EnterKeys :
       Dispatched(k) =>
         /\ IF torch_count > 0 /\ player_pos \notin Range(PlacedTorches)
            THEN /\ PlacedTorches' = Append(PlacedTorches, player_pos)
                 /\ torch_count' = torch_count - 1
            ELSE UNCHANGED <<torches, torch_count>>
         /\ pc' = "render"
         /\ UNCHANGED <<player_pos, collected_treasures, has_treasure, running,
                        message, message_style>>]_vars

\* C1 witness: Enter was handled on a cell that holds the only placed torch.
C1_Witness ==
  /\ pc = "render"
  /\ cmd \in EnterKeys
  /\ PlacedTorches = <<player_pos>>
  /\ torch_count = TORCH_COUNT - 1

\* C2: the pool counter is never negative and never increases; it changes only
\* by a successful place_torch, and then by exactly 1.
C2_PoolMonotone ==
  [][/\ torch_count >= 0
     /\ torch_count' >= 0
     /\ torch_count' <= torch_count
     /\ torch_count' # torch_count =>
          /\ torch_count' = torch_count - 1
          /\ \E k \in EnterKeys : Dispatched(k)
          /\ player_pos \notin Range(PlacedTorches)
          /\ PlacedTorches' = Append(PlacedTorches, player_pos)]_vars

\* C2 witness: the last torch has just been placed and the pool is empty.
C2_Witness ==
  /\ pc = "render"
  /\ cmd \in EnterKeys
  /\ torch_count = 0
  /\ Len(PlacedTorches) = TORCH_COUNT
  /\ PlacedTorches[TORCH_COUNT] = player_pos

\* The cells within TORCH_RADIUS of some placed torch.
TorchLit == [c \in Cells |-> \E i \in DOMAIN PlacedTorches :
                                 Manhattan(c, PlacedTorches[i]) <= TORCH_RADIUS]

\* C3: once the pool counter is 0 it stays 0, and every recompute from then on
\* lights exactly the cells within TORCH_RADIUS of some placed torch (none at
\* all when no torch is placed): the player carries no light; the cells that
\* are everSeen stay everSeen.
C3_PoolExhausted ==
  [][torch_count = 0 =>
       /\ torch_count' = 0
       /\ \A c \in Cells : seen[c] => seen'[c]
       /\ Recomputed =>
            /\ visible' = TorchLit'
            /\ PlacedTorches' = <<>> => \A c \in Cells : ~visible'[c]]_vars

\* C3 witness: after a recompute with the pool at 0, a cell within
\* VISION_RADIUS of the player is dark, and a remembered cell is dark too.
C3_Witness ==
  /\ pc = "getch"
  /\ torch_count = 0
  /\ \E c \in Cells : Manhattan(c, player_pos) <= VISION_RADIUS /\ ~visible[c]
  /\ \E c \in Cells : seen[c] /\ ~visible[c]

\* The positions the constructor has drawn: the player, the items, the exit.
Placed == <<player_pos>> \o treasure_pos \o <<exit_pos>>

\* C4: in every initial state the player, the three items and the exit are on
\* pairwise distinct Floor cells.
C4_DistinctFloorCells ==
  pc = "title" =>
    /\ \A i \in DOMAIN Placed : Placed[i] \in Cells /\ map[Placed[i]] = FLOOR
    /\ \A i, j \in DOMAIN Placed : i # j => Placed[i] # Placed[j]

\* This step is a move onto a cell whose item is already collected.
RestepOnCollected(k) ==
  /\ Dispatched(k)
  /\ Target(k) \in collected_treasures
  /\ player_pos' = Target(k)

\* C5: once the player has stepped onto every item position (each such step
\* collects the item) the may-exit flag is true; the flag never returns to
\* false; a move onto the cell of an already collected item changes only the
\* player position and does not end the game.
C5_MayExitFlag ==
  [][/\ Range(treasure_pos') \subseteq collected_treasures' => has_treasure'
     /\ has_treasure => has_treasure'
     /\ \A k \in DOMAIN DIRS :
          RestepOnCollected(k) =>
            /\ pc' = "render"
            /\ UNCHANGED <<collected_treasures, has_treasure, message,
                           message_style, exit_code>>]_vars

\* C6: the game is Won, with exit code 0, whenever the player is on the exit
\* position holding the may-exit flag, and only then; a move onto the exit
\* while the flag is false changes only the player position.
C6_WonAtExit ==
  [][/\ (player_pos' = exit_pos' /\ has_treasure') => Won'
     /\ Won' => (player_pos' = exit_pos' /\ has_treasure')
     /\ \A k \in DOMAIN DIRS :
          (Dispatched(k) /\ player_pos' = exit_pos /\ player_pos # exit_pos
             /\ ~has_treasure) =>
            /\ pc' = "render"
            /\ UNCHANGED <<collected_treasures, has_treasure, message,
                           message_style, torches, torch_count, exit_code>>]_vars

\* The tokens main acts on: the four directions and the place-light token.
Recognized == DOMAIN DIRS \cup EnterKeys

\* C7: a key that is no direction and not the place-light token is ignored:
\* the turn raises no error, does not end the process and changes nothing of
\* the game state.
C7_UnrecognizedIgnored ==
  [][\A k \in getch \ Recognized :
       (pc = "getch" /\ cmd' = k /\ running' /\ pc' # "getch") =>
         /\ pc' = "render"
         /\ UNCHANGED <<gameVars, exit_code>>]_vars

\* C8: a move whose target is out of bounds or a Wall changes neither the
\* player position nor any other part of the game state, and the game goes on.
C8_BlockedMove ==
  [][\A k \in DOMAIN DIRS :
       (Dispatched(k) /\ (Target(k) \notin Cells \/ map[Target(k)] = WALL)) =>
         /\ pc' = "render"
         /\ UNCHANGED <<gameVars, exit_code>>]_vars

\* C8 witness: an arrow key was handled and the player stands where no step
\* in that direction ends: the cell behind the player is a Wall.
C8_Witness ==
  /\ pc = "render"
  /\ cmd \in DOMAIN DIRS
  /\ map[<<player_pos[1] - DIRS[cmd][1], player_pos[2] - DIRS[cmd][2]>>] = WALL
  /\ map[<<player_pos[1] + DIRS[cmd][1], player_pos[2] + DIRS[cmd][2]>>] = WALL
  /\ message # NoMessage
  /\ Len(PlacedTorches) > 0

\* C9: everSeen never goes from true to false, and after every recompute each
\* lit cell is everSeen, the lit cells of intensity 0 among them.
C9_SeenMonotone ==
  [][/\ \A c \in Cells : seen[c] => seen'[c]
     /\ Recomputed => \A c \in Cells : visible'[c] => seen'[c]]_vars

\* C9 witness: after a recompute a lit cell of intensity 0 is everSeen, and a
\* cell that is no longer lit is still everSeen.
C9_Witness ==
  /\ pc = "getch"
  /\ \E c \in Cells : visible[c] /\ light_levels[c] = 0 /\ seen[c]
  /\ \E c \in Cells : ~visible[c] /\ seen[c]

\* The sources that are active: the player while the pool is > 0, and every
\* placed torch.
InReach(c) ==
  \/ torch_count > 0 /\ Manhattan(c, player_pos) <= VISION_RADIUS
  \/ \E i \in DOMAIN PlacedTorches : Manhattan(c, PlacedTorches[i]) <= TORCH_RADIUS

\* C10: after every recompute a cell is lit iff it is within Manhattan
\* distance R of an active source, whatever Walls lie between and whatever
\* the flicker rolls are.
C10_LitIffInReach ==
  pc = "getch" => \A c \in Cells : visible[c] <=> InReach(c)

\* C10 witness: after a recompute with flicker, a Floor cell is lit with
\* intensity 0, a Wall cell beyond a Wall is lit, and a cell is dark.
C10_Witness ==
  /\ pc = "getch"
  /\ \E c \in Cells : visible[c] /\ map[c] = FLOOR /\ light_levels[c] = 0
  /\ \E c \in Cells : /\ visible[c]
                       /\ c[1] = player_pos[1] + 2
                       /\ c[2] = player_pos[2]
                       /\ map[<<c[1] - 1, c[2]>>] = WALL
  /\ \E c \in Cells : ~visible[c]
  /\ \E c \in Cells : visible[c] /\ light_levels[c] < Max(0, VISION_RADIUS - Manhattan(c, player_pos))

\* The contributions R - Manhattan distance of the active sources that reach
\* c, the placed torches being placed.
ContributionsAt(c, placed) ==
  {TORCH_RADIUS - Manhattan(c, placed[i]) :
     i \in {j \in DOMAIN placed : Manhattan(c, placed[j]) <= TORCH_RADIUS}}
  \cup (IF torch_count > 0 /\ Manhattan(c, player_pos) <= VISION_RADIUS
        THEN {VISION_RADIUS - Manhattan(c, player_pos)}
        ELSE {})

\* The largest member of a set of numbers, 0 for the empty set.
Largest(S) == IF S = {} THEN 0 ELSE CHOOSE m \in S : \A n \in S : n <= m

\* The contribution of the brightest source reaching c, 0 when none does.
Brightest(c) == Largest(ContributionsAt(c, PlacedTorches))

\* C11: after every recompute, whatever the flicker rolls, the intensity of
\* each cell is the brightest contribution b of the active sources reaching it
\* or max(0, b - 1), never their sum; it is 0 on an unlit cell, it lies in
\* 0 .. 3, and the style lookup by brightness stays inside its list.
C11_MaxNotSum ==
  pc = "getch" =>
    \A placed \in {PlacedTorches} : \A c \in Cells :
      \A b \in {Largest(ContributionsAt(c, placed))} :
        /\ light_levels[c] \in {Max(0, b - 1), b}
        /\ ~visible[c] => light_levels[c] = 0
        /\ light_levels[c] \in 0 .. 3
        /\ get_tile_style(light_levels, c) # "IndexError"

\* C11 witness: after a recompute, a cell two placed torches both light with a
\* contribution > 0 has the larger of the two as its intensity, and another
\* cell has lost 1 of its brightest contribution to flicker.
C11_Witness ==
  /\ pc = "getch"
  /\ \E c \in Cells : \E i, j \in DOMAIN PlacedTorches :
       /\ i < j
       /\ TORCH_RADIUS - Manhattan(c, PlacedTorches[i]) > 0
       /\ TORCH_RADIUS - Manhattan(c, PlacedTorches[j]) > 0
       /\ light_levels[c] = Brightest(c)
       /\ light_levels[c] < 2 * TORCH_RADIUS - Manhattan(c, PlacedTorches[i])
                              - Manhattan(c, PlacedTorches[j])
  /\ \E c \in Cells : Brightest(c) > 0 /\ light_levels[c] = Brightest(c) - 1

\* The frame the last render has drawn.
Frame == project(visible, light_levels, seen)

\* C12: in every rendered frame the player's cell shows the player symbol
\* whatever the lighting; any other lit cell shows an uncollected item, else
\* the exit, else a placed torch, else the grid symbol; an unlit everSeen cell
\* shows its Wall or Floor symbol in the remembered style; any other cell is
\* fog.  Item, exit and torch symbols appear on lit cells only, and never the
\* symbol of an item on a cell whose item is collected.
C12_Precedence ==
  pc = "getch" =>
    \A c \in Cells : \A shown \in {Frame[c]} :
      /\ c = player_pos => shown = <<PLAYER, "bold yellow">>
      /\ (c # player_pos /\ visible[c]) =>
           /\ (c \in Range(treasure_pos) /\ c \notin collected_treasures)
                => shown = <<TREASURE, "bold magenta">>
           /\ (~(c \in Range(treasure_pos) /\ c \notin collected_treasures)
                 /\ c = exit_pos)
                => shown = <<EXIT, "bold cyan">>
           /\ (~(c \in Range(treasure_pos) /\ c \notin collected_treasures)
                 /\ c # exit_pos /\ c \in Range(PlacedTorches))
                => shown = <<TORCH, "bold red">>
           /\ (~(c \in Range(treasure_pos) /\ c \notin collected_treasures)
                 /\ c # exit_pos /\ c \notin Range(PlacedTorches))
                => shown[1] = map[c]
      /\ (c # player_pos /\ ~visible[c] /\ seen[c]) =>
           shown = <<map[c], "grey23">>
      /\ (c # player_pos /\ ~visible[c] /\ ~seen[c]) => shown = <<FOG, "dim">>
      /\ shown[1] \in {TREASURE, EXIT, TORCH} => visible[c]
      /\ shown[1] = TREASURE => c \notin collected_treasures

\* C12 witness: the last frame shows the exit's cell, which the player's light
\* has left, as remembered Floor, an uncollected item in the light as an item
\* and the lit cell of a collected item as Floor.
C12_Witness ==
  /\ pc = "getch"
  /\ exit_pos # player_pos
  /\ seen[exit_pos]
  /\ ~visible[exit_pos]
  /\ Frame[exit_pos] = <<FLOOR, "grey23">>
  /\ \E c \in Cells : Frame[c] = <<TREASURE, "bold magenta">>
  /\ \E c \in collected_treasures :
       c # player_pos /\ visible[c] /\ Frame[c][1] = FLOOR

\* C13: when the game is won, the victory message has been displayed before
\* the process terminates: a render showing it follows the winning move.
C13_VictoryDisplayed ==
  Won => console_message = VictoryMessage

\* This step is a move onto the cell of an item that is not yet collected.
PickedUp(k) ==
  /\ Dispatched(k)
  /\ Target(k) \in Range(treasure_pos)
  /\ Target(k) \notin collected_treasures
  /\ player_pos' = Target(k)

\* C14 as stated: every move onto an uncollected item position marks the item
\* collected, and when the move returns the current message shows the new
\* collected count over the total, from the first pickup to the last.
C14_CountShown ==
  [][\A k \in DOMAIN DIRS :
       PickedUp(k) =>
         /\ collected_treasures' = collected_treasures \cup {Target(k)}
         /\ message' = KeyMessage(Cardinality(collected_treasures'))]_vars

\* C14 amended: every move onto an uncollected item position marks the item
\* collected; when the move returns the current message is the key message
\* with the count for the first collected item, the wail message for the
\* second and the all-keys message for the third, each with its own style.
C14_PickupMessage ==
  [][\A k \in DOMAIN DIRS :
       PickedUp(k) =>
         /\ collected_treasures' = collected_treasures \cup {Target(k)}
         /\ pc' = "render"
         /\ LET n == Cardinality(collected_treasures')
            IN /\ n \in 1 .. 3
               /\ n = 1 => message' = KeyMessage(1) /\ message_style' = "bold magenta"
               /\ n = 2 => message' = WailMessage /\ message_style' = "bold red"
               /\ n = 3 => message' = AllKeysMessage /\ message_style' = "bold green"]_vars

\* C14 witness: a move has just collected the second item and the current
\* message is the wail message.
C14_Witness ==
  /\ pc = "render"
  /\ cmd \in DOMAIN DIRS
  /\ player_pos \in collected_treasures
  /\ Cardinality(collected_treasures) = 2
  /\ message = WailMessage
  /\ console_message = KeyMessage(1)

\* This step is the winning move: onto the exit with the may-exit flag set.
WinningMove(k) ==
  /\ Dispatched(k)
  /\ player_pos' = Target(k)
  /\ player_pos' = exit_pos
  /\ has_treasure
  /\ pc' = "exited"

\* C15: the message and its style change only on an item pickup or on the
\* winning move: a move with no event, a rejected move, a torch placement
\* (successful or not) and an unrecognized key leave both as they were.
C15_StickyMessage ==
  [][/\ (message' # message \/ message_style' # message_style) =>
          \E k \in DOMAIN DIRS : PickedUp(k) \/ WinningMove(k)
     /\ \A k \in getch :
          (Dispatched(k) /\ k \in DOMAIN DIRS /\ player_pos' = player_pos)
            => UNCHANGED <<message, message_style>>
     /\ \A k \in getch \ DOMAIN DIRS :
          Dispatched(k) => UNCHANGED <<message, message_style>>]_vars

\* C15 witness: an arrow key was handled, the player stands on a cell that
\* holds no item, and the current message is still the key message of the
\* first pickup, which a render has already shown.
C15_Witness ==
  /\ pc = "render"
  /\ cmd \in DOMAIN DIRS
  /\ player_pos \notin Range(treasure_pos)
  /\ player_pos # exit_pos
  /\ message = KeyMessage(1)
  /\ message_style = "bold magenta"
  /\ console_message = KeyMessage(1)

\* The frame render draws from what update_visibility has computed.
FrameOf(lit) == project(lit.visible, lit.light_levels, lit.seen)

\* The frame a render of the current state draws when its flicker rolls are
\* roll.
FrameFor(roll) ==
  FrameOf(LightSources([visible |-> [c \in Cells |-> FALSE],
                        seen |-> seen,
                        light_levels |-> [c \in Cells |-> 0]], 1, roll))

\* C16 as stated: rendering twice from the same game state (grid, player
\* position, torch list, pool counter, collected set, everSeen) yields the
\* identical grid of (symbol, style) cells.
C16_SameFrame ==
  pc = "render" =>
    \A f1 \in {FrameFor("none")} : \A f2 \in {FrameFor("alternate")} : f1 = f2

\* A cell of the current state that shows its grid symbol when lit: not the
\* player's cell, no uncollected item, not the exit, no placed torch.
PlainCell(c) ==
  /\ c # player_pos
  /\ ~(c \in Range(treasure_pos) /\ c \notin collected_treasures)
  /\ c # exit_pos
  /\ c \notin Range(PlacedTorches)

\* C16 amended: rendering twice from the same game state yields the identical
\* grid of symbols; the styles of the two frames differ at most on cells in
\* reach of an active source that show their Wall or Floor grid symbol, and
\* there both are styles of the brightness table or "dim".
C16_SameSymbols ==
  pc = "render" =>
    \A f1 \in {FrameFor("none")} : \A f2 \in {FrameFor("alternate")} :
      \A c \in Cells : \A a \in {f1[c]} : \A b \in {f2[c]} :
        /\ a[1] = b[1]
        /\ a[2] # b[2] =>
             /\ InReach(c)
             /\ PlainCell(c)
             /\ a[1] \in {WALL, FLOOR}
             /\ a[2] \in Range(StyleTable) \cup {"dim"}
             /\ b[2] \in Range(StyleTable) \cup {"dim"}

\* C16 witness: a state about to be rendered in which the two outcomes of the
\* flicker rolls give a Floor cell different styles, while a placed torch away
\* from the player is drawn as a torch in both.
C16_Witness ==
  /\ pc = "render"
  /\ \E f1 \in {FrameFor("none")} : \E f2 \in {FrameFor("alternate")} :
       /\ \E c \in Cells : map[c] = FLOOR /\ f1[c][2] # f2[c][2]
       /\ \E c \in Cells :
            /\ c # player_pos
            /\ f1[c] = <<TORCH, "bold red">>
            /\ f2[c] = <<TORCH, "bold red">>

\* C17: on every successful move the exit check follows the item pickup in the
\* same move: if after the pickup step the player stands on the exit position
\* with the may-exit flag set, that move ends the game as Won.
C17_ExitAfterPickup ==
  [][\A k \in DOMAIN DIRS :
       (/\ Dispatched(k)
        /\ player_pos' = Target(k)
        /\ player_pos' = exit_pos
        /\ has_treasure') => Won']_vars

\* The key the title screen prompts for: 'B'.
PromptedKey == <<66>>

\* C18: in the Title state, pressing the key the title screen prompts for,
\* 'B', takes the game to Playing; every other key leaves it in Title with the
\* game state unchanged.
C18_TitleConfirm ==
  [][(pc = "title" /\ running') =>
       /\ key' = PromptedKey => pc' = "render"
       /\ key' # PromptedKey => (pc' = "title" /\ UNCHANGED gameVars)]_vars

\* The placed torches and the pool counter add up to TORCH_COUNT, the placed
\* torches are on pairwise distinct Floor cells, and (None, None) is in the
\* torch list exactly while the pool counter is > 0.
LedgerBalanced ==
  /\ Len(PlacedTorches) + torch_count = TORCH_COUNT
  /\ \A i \in DOMAIN PlacedTorches :
       PlacedTorches[i] \in Cells /\ map[PlacedTorches[i]] = FLOOR
  /\ \A i, j \in DOMAIN PlacedTorches :
       i # j => PlacedTorches[i] # PlacedTorches[j]
  /\ Placeholder \in Range(torches) <=> torch_count > 0

\* C19: before and after every step the placed torches and the pool counter
\* add up to TORCH_COUNT, the placed torches are on pairwise distinct Floor
\* cells, and the player-light placeholder is in the torch list exactly while
\* the pool counter is > 0; every step leaves the placed torches as they are
\* or appends one at the cell the player occupies.
C19_TorchLedger ==
  [][/\ LedgerBalanced
     /\ LedgerBalanced'
     /\ \/ PlacedTorches' = PlacedTorches
        \/ PlacedTorches' = Append(PlacedTorches, player_pos)]_vars

\* C19 witness: the pool is empty, TORCH_COUNT torches are placed, the torch
\* list holds no (None, None), and the player has walked off the torches.
C19_Witness ==
  /\ pc = "getch"
  /\ torch_count = 0
  /\ Len(PlacedTorches) = TORCH_COUNT
  /\ Placeholder \notin Range(torches)
  /\ player_pos \notin Range(torches)

\* C20: once the pool counter is 0, no step changes the counter, the torch
\* list or the set of lit cells, and everSeen does not grow any more (the last
\* torch lies where the player's light was, with the same radius, so not even
\* the first recompute adds a cell); the player still moves.
C20_FrozenField ==
  [][torch_count = 0 =>
       /\ torch_count' = 0
       /\ UNCHANGED torches
       /\ UNCHANGED visible
       /\ UNCHANGED seen]_vars

\* C20 witness: with the pool at 0 the player has walked off the torches,
\* Enter has been handled and has placed nothing, and the recompute after it
\* has left a cell within VISION_RADIUS of the player dark and has flickered
\* the intensity of a lit cell.
C20_Witness ==
  /\ pc = "getch"
  /\ torch_count = 0
  /\ cmd \in EnterKeys
  /\ player_pos \notin Range(torches)
  /\ \E c \in Cells : Manhattan(c, player_pos) <= VISION_RADIUS /\ ~visible[c]
  /\ \E c \in Cells : visible[c] /\ light_levels[c] < Brightest(c)

====
